---- MODULE Spec2Model ----
(***************************************************************************)
(* Virtual Try-On API server (backend/app/main.py).                        *)
(*                                                                         *)
(* The model covers the try-on endpoint (generate_tryon) with its three    *)
(* remote backends and the composite fallback, the image preprocessing     *)
(* and compositor geometry it depends on, the in-memory image cache        *)
(* shared by the try-on endpoint and the proxy endpoints, and the root and *)
(* health endpoints.                                                       *)
(*                                                                         *)
(* The server runs its handlers as coroutines of one event loop: a         *)
(* handler runs without interruption from one await to the next.  Each     *)
(* action below is one such uninterrupted stretch of code.                 *)
(***************************************************************************)
EXTENDS Integers, Sequences, FiniteSets, TLC

\* Bounds of the model.
NumImages == 2       \* image payloads 1..NumImages; payload 0 is not an image
NumUrls == 3         \* distinct remote URLs
NumRequests == 2     \* concurrent in-flight proxy requests

\* image_cache capacity.  The program's value is 100; the model scales it
\* down so that eviction happens with NumUrls distinct keys.
CACHE_MAX_SIZE == 2

VARIABLES
    REPLICATE_API_TOKEN,    \* TRUE iff the environment sets the credential
    HUGGINGFACE_API_TOKEN,
    FAL_API_KEY,
    image_cache,            \* insertion-ordered dict: sequence of [key, value]
    proxy,                  \* proxy[r]: position of proxy request r in fetch_image_bytes
    reply,                  \* the proxy response sent last
    evicted,                \* keys removed by the caching block behind the last reply
    request,                \* the TryOnRequest being handled
    pc,                     \* position of generate_tryon
    user_photo,             \* local variables of generate_tryon
    garment_image,
    method,
    result_image,
    invoked,                \* backend functions called so far, in order
    temp_files,             \* temp files of this request's Hugging Face call still on disk
    hf_result,              \* value generate_tryon_huggingface is about to return
    response,               \* the TryOnResponse returned
    category,               \* body category computed for a backend's request
    garment_desc,           \* garment description computed for a backend's request
    report                  \* the response of the root or health endpoint sent last

vars == <<REPLICATE_API_TOKEN, HUGGINGFACE_API_TOKEN, FAL_API_KEY, image_cache,
          proxy, reply, evicted, request, pc, user_photo, garment_image, method, result_image,
          invoked, temp_files, hf_result, response, category, garment_desc, report>>

config == <<REPLICATE_API_TOKEN, HUGGINGFACE_API_TOKEN, FAL_API_KEY>>
tryon == <<request, pc, user_photo, garment_image, method, result_image,
           invoked, temp_files, hf_result, response, category, garment_desc>>
payload == <<category, garment_desc>>

----------------------------------------------------------------------------
\* Availability flags, computed once at import time.

USE_REPLICATE == REPLICATE_API_TOKEN

USE_HUGGINGFACE == TRUE

\* Mutant of USE_FAL: the flag copied from USE_HUGGINGFACE.
USE_FAL_AlwaysOn == TRUE

USE_FAL == FAL_API_KEY

----------------------------------------------------------------------------
\* Rasters (PIL images): size, colour mode, the component that made them,
\* whether the pixel data behind the header decodes (Image.open reads only
\* the header; the data is decoded when the raster is first processed), and,
\* for a raster the Compositor built, its layers from the bottom to the top.

None == [w |-> 0, h |-> 0, mode |-> "none", src |-> "none", intact |-> FALSE,
         layers |-> <<>>]

Raster(w, h, mode, src) ==
    [w |-> w, h |-> h, mode |-> mode, src |-> src, intact |-> TRUE,
     layers |-> <<>>]

Abs(x) == IF x < 0 THEN 0 - x ELSE x

Max(a, b) == IF a >= b THEN a ELSE b

\* Payloads a client or a remote server can send.  Payload 0 is not an image.
Payloads == 0 .. NumImages

\* The picture in a user-photo payload.
UserPicture(p) ==
    CASE p = 1 -> Raster(600, 800, "RGB", "user")
      [] p = 2 -> Raster(1000, 1000, "RGBA", "user")
      [] p = 3 -> Raster(3000, 2000, "L", "user")
      [] OTHER -> Raster(640, 480, "RGB", "user")

\* The picture in a product-image payload (inline or fetched).
GarmentPicture(p) ==
    CASE p = 1 -> Raster(400, 600, "RGBA", "garment")
      [] p = 2 -> Raster(2000, 2, "P", "garment")
      [] p = 3 -> Raster(500, 1000, "RGB", "garment")
      [] OTHER -> Raster(300, 300, "RGB", "garment")

\* decode_base64_image / Image.open: None stands for the exception raised on
\* bytes that are not an image.
decode_user_photo(p) == IF p = 0 THEN None ELSE UserPicture(p)

decode_product_image(p) == IF p = 0 THEN None ELSE GarmentPicture(p)

----------------------------------------------------------------------------
\* preprocess_image: Image.thumbnail followed by the colour-mode conversion.

\* round_aspect(y * aspect, key = |aspect - n / y|) of Image.thumbnail
RoundAspectX(w, h, y) ==
    LET fl == (y * w) \div h
        ce == IF (y * w) % h = 0 THEN fl ELSE fl + 1
        best == IF Abs(w * y - fl * h) <= Abs(w * y - ce * h) THEN fl ELSE ce
    IN  Max(best, 1)

\* round_aspect(x / aspect, key = 0 if n == 0 else |aspect - x / n|)
RoundAspectY(w, h, x) ==
    LET fl == (x * h) \div w
        ce == IF (x * h) % w = 0 THEN fl ELSE fl + 1
        best == IF fl = 0 THEN fl
                ELSE IF Abs(w * fl - x * h) * ce <= Abs(w * ce - x * h) * fl
                     THEN fl ELSE ce
    IN  Max(best, 1)

\* Mutant of thumbnail: Image.resize to the given size.
thumbnail_Resize(image, x, y) == [image EXCEPT !.w = x, !.h = y]

\* Image.thumbnail(size): shrink in place to fit size, keeping the aspect ratio.
thumbnail(image, x, y) ==
    IF x >= image.w /\ y >= image.h THEN image
    ELSE IF x * image.h >= image.w * y
         THEN [image EXCEPT !.w = RoundAspectX(image.w, image.h, y), !.h = y]
         ELSE [image EXCEPT !.w = x, !.h = RoundAspectY(image.w, image.h, x)]

\* The bound preprocess_image uses for max_size = (mx, my).
preprocess_bound(mx, my, fast_mode) ==
    IF fast_mode
    THEN (IF mx >= my THEN <<512, 680>> ELSE <<512, 512>>)
    ELSE <<mx, my>>

\* Mutant of preprocess_image: the colour-mode conversion left out.
preprocess_image_SizeOnly(image, mx, my, fast_mode) ==
    LET b == preprocess_bound(mx, my, fast_mode)
    IN  thumbnail(image, b[1], b[2])

preprocess_image(image, mx, my, fast_mode) ==
    LET b == preprocess_bound(mx, my, fast_mode)
        t == thumbnail(image, b[1], b[2])
    IN  IF t.mode \notin {"RGB", "RGBA"} THEN [t EXCEPT !.mode = "RGB"] ELSE t

----------------------------------------------------------------------------
\* Garment types: the description and the body category sent to a backend.

\* The keys of the `descriptions` table.
DescribedTypes == {"top", "shirt", "sweater", "cardigan", "jacket", "dress",
                   "pants", "jeans", "shorts", "skirt"}

\* The table's text for a key, as a one-element sequence.
descriptions(garment_type) ==
    CASE garment_type = "top" -> <<"A fashionable top, casual wear, fitted style">>
      [] garment_type = "shirt" -> <<"A button-up shirt, formal or casual, well-fitted">>
      [] garment_type = "sweater" -> <<"A cozy knit sweater, comfortable fit">>
      [] garment_type = "cardigan" ->
             <<"A stylish cardigan sweater, open front, elegant drape">>
      [] garment_type = "jacket" -> <<"A tailored jacket, structured fit, outerwear">>
      [] garment_type = "dress" -> <<"An elegant dress, flattering silhouette">>
      [] garment_type = "pants" -> <<"Well-fitted pants, tailored cut">>
      [] garment_type = "jeans" -> <<"Classic denim jeans, modern fit">>
      [] garment_type = "shorts" -> <<"Casual shorts, comfortable fit">>
      [] garment_type = "skirt" -> <<"A stylish skirt, flattering length">>

\* Mutant of get_garment_description: an unknown type gets the text of "top".
get_garment_description_DefaultTop(garment_type) ==
    IF garment_type \in DescribedTypes
    THEN descriptions(garment_type)
    ELSE descriptions("top")

\* descriptions.get(garment_type, f"A {garment_type} clothing item, ..."): the
\* formatted default is the sequence of its three parts.
get_garment_description(garment_type) ==
    IF garment_type \in DescribedTypes
    THEN descriptions(garment_type)
    ELSE <<"A ", garment_type, " clothing item, well-fitted, stylish">>

\* `is_upper` of generate_tryon_fal and generate_tryon_replicate
is_upper(garment_type) ==
    garment_type \in {"top", "shirt", "sweater", "cardigan", "jacket", "dress"}

\* `category` of generate_tryon_fal and generate_tryon_replicate
body_category(garment_type) ==
    IF garment_type = "dress" THEN "dresses"
    ELSE IF is_upper(garment_type) THEN "upper_body" ELSE "lower_body"

\* The category and the description a backend function computes before its
\* first remote call: Fal and Replicate compute both, Hugging Face neither
\* (its IDM-VTON fallback computes the description later).
request_category(stage, old, garment_type) ==
    IF stage \in {"fal", "rep"} THEN body_category(garment_type) ELSE old

request_description(stage, old, garment_type) ==
    IF stage \in {"fal", "rep"} THEN get_garment_description(garment_type) ELSE old

----------------------------------------------------------------------------
\* generate_composite_tryon: placement geometry.

\* Mutant of LowerBody: the list without "skirt".
LowerBody_Trousers == {"pants", "jeans", "shorts"}

LowerBody == {"pants", "jeans", "shorts", "skirt"}

\* scale_width, y_position_ratio, max_height_ratio, in hundredths
PlacementParams(garment_type) ==
    IF garment_type \in LowerBody
    THEN [scale_width |-> 55, y_position_ratio |-> 42, max_height_ratio |-> 55]
    ELSE IF garment_type = "dress"
         THEN [scale_width |-> 60, y_position_ratio |-> 12, max_height_ratio |-> 75]
         ELSE [scale_width |-> 58, y_position_ratio |-> 12, max_height_ratio |-> 50]

\* int(n * ratio) in double arithmetic, for 0 <= n <= 2048.  The product is
\* computed with the double nearest to ratio; for ratio 0.58 it falls just
\* below the exact integer for these n, and int() truncates it one lower.
FloatShort58 == {50, 100, 200, 400, 750, 800, 850,
                 1450, 1500, 1550, 1600, 1650, 1700, 1750}

IntScale(n, hundredths) ==
    (n * hundredths) \div 100
      - (IF hundredths = 58 /\ n \in FloatShort58 THEN 1 ELSE 0)

\* Mutant of CompositeGeometry: the height limit left out.
CompositeGeometry_WidthOnly(user, garment, garment_type) ==
    LET p == PlacementParams(garment_type)
        width0 == IntScale(user.w, p.scale_width)
    IN  [new_width |-> width0, new_height |-> (width0 * garment.h) \div garment.w,
         max_height |-> IntScale(user.h, p.max_height_ratio), max_width |-> width0,
         x_offset |-> (user.w - width0) \div 2,
         y_offset |-> IntScale(user.h, p.y_position_ratio)]

\* The garment's scaled size and its offset on the person raster.
CompositeGeometry(user, garment, garment_type) ==
    LET p == PlacementParams(garment_type)
        width0 == IntScale(user.w, p.scale_width)
        height0 == (width0 * garment.h) \div garment.w
        max_height == IntScale(user.h, p.max_height_ratio)
        capped == height0 > max_height
        new_height == IF capped THEN max_height ELSE height0
        new_width == IF capped THEN (max_height * garment.w) \div garment.h ELSE width0
    IN  [new_width |-> new_width, new_height |-> new_height,
         max_height |-> max_height, max_width |-> width0,
         x_offset |-> (user.w - new_width) \div 2,
         y_offset |-> IntScale(user.h, p.y_position_ratio)]

\* A layer pasted with its top left corner at (x, y).
Layer(name, x, y) == [name |-> name, x |-> x, y |-> y]

\* Image.alpha_composite(base, overlay): the overlay's content lies over the
\* base.  An overlay nothing was pasted on is transparent and adds nothing.
alpha_composite(base, overlay) == base \o overlay

\* Mutant of CompositeLayers: the shadow composited over the blended result
\* of line 579.
CompositeLayers_ShadowOnTop(user, garment, garment_type) ==
    LET g == CompositeGeometry(user, garment, garment_type)
    IN  <<Layer("person", 0, 0), Layer("garment", g.x_offset, g.y_offset),
          Layer("shadow", g.x_offset + 5, g.y_offset + 5),
          Layer("badge", user.w - 10, user.h - 35)>>

\* The layers of the final raster.  The garment was converted to RGBA at the
\* start, so the branch that builds the shadow is always taken.  The badge
\* is drawn on the final raster; its x is the right edge of its rectangle
\* (the left edge depends on the font).
CompositeLayers(user, garment, garment_type) ==
    LET g == CompositeGeometry(user, garment, garment_type)
        garment_mode == "RGBA"
        overlay == <<Layer("garment", g.x_offset, g.y_offset)>>
        shadow_overlay ==
            IF garment_mode = "RGBA"
            THEN <<Layer("shadow", g.x_offset + 5, g.y_offset + 5)>>
            ELSE <<>>
        final == alpha_composite(alpha_composite(<<Layer("person", 0, 0)>>,
                                                 shadow_overlay),
                                 overlay)
    IN  Append(final, Layer("badge", user.w - 10, user.h - 35))

\* Image.resize raises ValueError unless both sides of the new size are >= 1;
\* None stands for the exception.  Otherwise the result is an RGB raster of
\* the person raster's size.
generate_composite_tryon(user, garment, garment_type) ==
    LET g == CompositeGeometry(user, garment, garment_type)
    IN  IF g.new_width < 1 \/ g.new_height < 1 THEN None
        ELSE [Raster(user.w, user.h, "RGB", "compositor")
                 EXCEPT !.layers = CompositeLayers(user, garment, garment_type)]

\* encode_image_to_base64(image, "JPEG"): RGBA is converted to RGB first; save
\* decodes the pixel data and raises OSError when it is truncated, and the
\* JPEG writer raises OSError for modes it cannot write (P, LA, ...).
JpegModes == {"RGB", "L", "CMYK"}

encode_raises(image) ==
    LET m == IF image.mode = "RGBA" THEN "RGB" ELSE image.mode
    IN  ~image.intact \/ m \notin JpegModes

----------------------------------------------------------------------------
\* image_cache and fetch_image_bytes.

\* URL 0 has a scheme other than http/https; the others are http(s) URLs.
Urls == 0 .. NumUrls

HttpUrls == 1 .. NumUrls

\* hashlib.md5(url.encode()).hexdigest(): no two URLs of the model collide.
md5(url) == <<"md5", url>>

CacheKeys(c) == {c[i].key : i \in DOMAIN c}

\* image_cache[k], with -2 standing for KeyError
MissingValue == 0 - 2

CacheGet(c, k) ==
    IF k \in CacheKeys(c)
    THEN c[CHOOSE i \in DOMAIN c : c[i].key = k].value
    ELSE MissingValue

\* Mutant of cache_lookup: the read happens after another request's eviction.
cache_lookup_AfterEviction(c, k) ==
    [found |-> k \in CacheKeys(c), value |-> CacheGet(SubSeq(c, 2, Len(c)), k)]

\* `if cache_key in image_cache: return image_cache[cache_key]`
cache_lookup(c, k) == [found |-> k \in CacheKeys(c), value |-> CacheGet(c, k)]

\* `image_cache[k] = v`: a key already present keeps its position.
dict_set(c, k, v) ==
    IF k \in CacheKeys(c)
    THEN [i \in DOMAIN c |-> IF c[i].key = k THEN [key |-> k, value |-> v] ELSE c[i]]
    ELSE Append(c, [key |-> k, value |-> v])

\* Mutant of evict_oldest: the key inserted last is dropped (popitem).
evict_newest(c) == SubSeq(c, 1, Len(c) - 1)

\* `del image_cache[next(iter(image_cache))]`: drop the first key in
\* insertion order.
evict_oldest(c) == Tail(c)

\* Mutant of after_failed_fetch: the eviction done before raise_for_status.
after_failed_fetch_Evicting(c) ==
    IF Len(c) >= CACHE_MAX_SIZE THEN SubSeq(c, 2, Len(c)) ELSE c

\* image_cache after client.get or raise_for_status raised: the exception
\* leaves fetch_image_bytes before the caching block.
after_failed_fetch(c) == c

\* The caching block executed after a successful download.
cache_store(c, k, v) ==
    dict_set(IF Len(c) >= CACHE_MAX_SIZE THEN evict_oldest(c) ELSE c, k, v)

----------------------------------------------------------------------------
\* Proxy endpoint (proxy_image): each request r runs fetch_image_bytes.

Requests == 1 .. NumRequests

NoBody == 0 - 1

Idle == [pc |-> "idle", url |-> 0]

NoReply == [url |-> 0, status |-> 0, body |-> NoBody, hit |-> FALSE]

Reply(url, status, body, hit) ==
    [url |-> url, status |-> status, body |-> body, hit |-> hit]

\* Bodies a remote server sends to a proxy request: not an image, an image.
ProxyBodies == {0, 1}

\* The except clauses of proxy_image, tried in order: an httpx.HTTPStatusError
\* is passed on with the remote status; every other Exception, the
\* HTTPException raised inside the try block included, becomes a 500.
proxy_except(exception, status) ==
    IF exception = "HTTPStatusError" THEN status ELSE 500

\* Mutant of after_lookup: the entry read is moved to the end of the order.
after_lookup_MoveToEnd(c, k) ==
    IF k \in CacheKeys(c)
    THEN Append(SelectSeq(c, LAMBDA e : e.key # k),
                [key |-> k, value |-> CacheGet(c, k)])
    ELSE c

\* image_cache after `cache_key in image_cache` and `image_cache[cache_key]`:
\* reading a dict changes neither its entries nor their order.
after_lookup(c, k) == c

\* The request arrives; the code runs up to the first await or to the return.
\* For a URL of another scheme the code raises HTTPException(400) inside its
\* try block, before fetch_image_bytes; a cache hit returns at once; a miss
\* starts the download.
ProxyStart(r, url) ==
    /\ proxy[r].pc = "idle"
    /\ LET look == cache_lookup(image_cache, md5(url))
       IN  IF url \notin HttpUrls
           THEN /\ reply' = Reply(url, proxy_except("HTTPException", 400),
                                  NoBody, FALSE)
                /\ proxy' = proxy
                /\ image_cache' = image_cache
           ELSE IF look.found
           THEN /\ reply' = Reply(url,
                                  IF look.value = MissingValue THEN 500 ELSE 200,
                                  look.value, TRUE)
                /\ proxy' = proxy
                /\ image_cache' = after_lookup(image_cache, md5(url))
           ELSE /\ proxy' = [proxy EXCEPT ![r] = [pc |-> "await", url |-> url]]
                /\ reply' = reply
                /\ image_cache' = after_lookup(image_cache, md5(url))
    /\ evicted' = IF reply' = reply THEN evicted ELSE {}
    /\ UNCHANGED <<config, report, tryon>>

\* The download completes with a 2xx status and some content.
ProxyFetchOk(r, content) ==
    /\ proxy[r].pc = "await"
    /\ image_cache' = cache_store(image_cache, md5(proxy[r].url), content)
    /\ evicted' = CacheKeys(image_cache) \ CacheKeys(image_cache')
    /\ reply' = Reply(proxy[r].url, 200, content, FALSE)
    /\ proxy' = [proxy EXCEPT ![r] = Idle]
    /\ UNCHANGED <<config, report, tryon>>

\* raise_for_status raises (HTTPStatusError, here with the remote status 404)
\* or the download times out or fails (TransportError).
ProxyFetchFail(r, exception) ==
    /\ proxy[r].pc = "await"
    /\ reply' = Reply(proxy[r].url, proxy_except(exception, 404), NoBody, FALSE)
    /\ image_cache' = after_failed_fetch(image_cache)
    /\ evicted' = {}
    /\ proxy' = [proxy EXCEPT ![r] = Idle]
    /\ UNCHANGED <<config, report, tryon>>

ProxyNext ==
    \E r \in Requests :
        \/ \E url \in Urls : ProxyStart(r, url)
        \/ \E content \in ProxyBodies : ProxyFetchOk(r, content)
        \/ \E exception \in {"HTTPStatusError", "TransportError"} :
              ProxyFetchFail(r, exception)

NoRequest == [user_photo |-> 0, product_image |-> 0, product_is_url |-> FALSE,
              garment_type |-> "top", fast_mode |-> TRUE]

NoResponse == [success |-> FALSE, result_image |-> None, error |-> "",
               method |-> "none"]

NoReport == [endpoint |-> "none", ai_enabled |-> FALSE, replicate |-> FALSE,
             fal |-> FALSE, huggingface |-> FALSE]

Init ==
    /\ REPLICATE_API_TOKEN \in BOOLEAN
    /\ HUGGINGFACE_API_TOKEN \in BOOLEAN
    /\ FAL_API_KEY \in BOOLEAN
    /\ image_cache = <<>>
    /\ proxy = [r \in Requests |-> Idle]
    /\ reply = NoReply
    /\ evicted = {}
    /\ request = NoRequest
    /\ pc = "idle"
    /\ user_photo = None
    /\ garment_image = None
    /\ method = "none"
    /\ result_image = None
    /\ invoked = <<>>
    /\ temp_files = {}
    /\ hf_result = None
    /\ response = NoResponse
    /\ category = "none"
    /\ garment_desc = <<>>
    /\ report = NoReport

----------------------------------------------------------------------------
\* Try-on endpoint (generate_tryon).

GarmentTypes == {"top", "skirt", "dress"}

\* The URL a try-on request names as its product image.
ProductUrls == {1}

\* Rasters a remote service may send back: an image file in one of these
\* colour modes, or an image file whose data breaks off after the header.
ResultModes == {"RGB", "RGBA", "P", "truncated"}

\* The three backend blocks of generate_tryon, in program order, and the
\* block that follows each.
Stages == <<"hf", "fal", "rep">>

NextStage(stage) ==
    CASE stage = "hf" -> "fal"
      [] stage = "fal" -> "rep"
      [] stage = "rep" -> "composite"

BackendOf(stage) ==
    CASE stage = "hf" -> "huggingface"
      [] stage = "fal" -> "fal"
      [] stage = "rep" -> "replicate"

\* The availability flag each block tests.
Available(stage) ==
    CASE stage = "hf" -> USE_HUGGINGFACE
      [] stage = "fal" -> USE_FAL
      [] stage = "rep" -> USE_REPLICATE

\* The value each block assigns to `method` after its backend returned.
method_tag(stage) ==
    CASE stage = "hf" -> "ai-kolors"
      [] stage = "fal" -> "ai-fal"
      [] stage = "rep" -> "ai-replicate"

\* The except clause that catches an exception raised by a backend function:
\* each call sits in its own try/except inside the outer try.
catch_site(stage) == "inner"

\* Seconds after which a pending remote call is abandoned with an exception;
\* 0 when the call has no deadline (run_in_executor is awaited and
\* replicate.run is called without one).
deadline(p) ==
    CASE p = "fetch_wait" -> 30
      [] p \in {"fal_post", "fal_get"} -> 90
      [] p \in {"rep_idm_get", "rep_oot_get"} -> 60
      [] OTHER -> 0

\* Positions at which generate_tryon waits for a remote party.
WaitStates == {"fetch_wait", "hf_kolors", "hf_idm", "fal_post", "fal_get",
               "rep_idm", "rep_idm_get", "rep_oot", "rep_oot_get"}

\* str(e) of the exception an httpx.AsyncClient call raises when its timeout
\* passes: the exception carries no message.
TimeoutText == ""

\* The outer `except Exception`: TryOnResponse(success=False, error=str(e)),
\* with the model's default method.  The other exceptions carry a message,
\* which the model abbreviates to the step that raised.
Fail(stage) ==
    /\ response' = [success |-> FALSE, result_image |-> None, error |-> stage,
                    method |-> "composite"]
    /\ pc' = "done"

\* A backend function raised.
Raised(stage) ==
    IF catch_site(stage) = "inner"
    THEN /\ pc' = NextStage(stage)
         /\ response' = response
    ELSE Fail("backend")

\* A backend function returned img.
Returned(stage, img) ==
    /\ result_image' = img
    /\ method' = method_tag(stage)
    /\ pc' = NextStage(stage)
    /\ response' = response

\* The raster a remote service sent.
Generated(kind, service) ==
    IF kind = "truncated"
    THEN [Raster(768, 1024, "RGB", service) EXCEPT !.intact = FALSE]
    ELSE Raster(768, 1024, kind, service)

\* A request arrives at the idle handler.
ReceiveRequest(up, pi, is_url, gt, fast) ==
    /\ pc = "idle"
    /\ request' = [user_photo |-> up, product_image |-> pi, product_is_url |-> is_url,
                   garment_type |-> gt, fast_mode |-> fast]
    /\ pc' = "decode_user"
    /\ UNCHANGED <<config, report, payload, image_cache, proxy, reply, evicted,
                   user_photo, garment_image, method, result_image, invoked,
                   temp_files, hf_result, response>>

\* The response has been sent: the handler's locals are gone.  Temporary
\* files are tracked per request.
ReturnResponse ==
    /\ pc = "done"
    /\ pc' = "idle"
    /\ request' = NoRequest
    /\ user_photo' = None
    /\ garment_image' = None
    /\ method' = "none"
    /\ result_image' = None
    /\ invoked' = <<>>
    /\ temp_files' = {}
    /\ hf_result' = None
    /\ response' = NoResponse
    /\ category' = "none"
    /\ garment_desc' = <<>>
    /\ UNCHANGED <<config, report, image_cache, proxy, reply, evicted>>

\* user_photo = preprocess_image(decode_base64_image(request.user_photo), ...)
DecodeUserPhoto ==
    /\ pc = "decode_user"
    /\ LET img == decode_user_photo(request.user_photo)
       IN  IF img = None
           THEN Fail("decode") /\ user_photo' = user_photo
           ELSE /\ user_photo' = preprocess_image(img, 768, 1024, request.fast_mode)
                /\ pc' = "product"
                /\ response' = response
    /\ UNCHANGED <<config, report, payload, image_cache, proxy, reply, evicted,
                   request, garment_image, method, result_image, invoked,
                   temp_files, hf_result>>

\* Image.open on the product bytes, preprocess_image, then method = "composite"
\* and result_image = None.
OpenProduct(content) ==
    LET img == decode_product_image(content)
    IN  IF img = None
        THEN Fail("decode") /\ UNCHANGED <<garment_image, method>>
        ELSE /\ garment_image' = preprocess_image(img, 768, 768, request.fast_mode)
             /\ method' = "composite"
             /\ pc' = "hf"
             /\ response' = response

\* The product image: inline, from the cache, or the download starts.
GetProductImage ==
    /\ pc = "product"
    /\ LET look == cache_lookup(image_cache, md5(request.product_image))
       IN  IF ~request.product_is_url THEN OpenProduct(request.product_image)
           ELSE IF look.found THEN OpenProduct(look.value)
           ELSE /\ pc' = "fetch_wait"
                /\ UNCHANGED <<garment_image, method, response>>
    /\ UNCHANGED <<config, report, payload, image_cache, proxy, reply, evicted,
                   request, user_photo, result_image, invoked, temp_files,
                   hf_result>>

ProductFetchOk(content) ==
    /\ pc = "fetch_wait"
    /\ image_cache' = cache_store(image_cache, md5(request.product_image), content)
    /\ evicted' = CacheKeys(image_cache) \ CacheKeys(image_cache')
    /\ OpenProduct(content)
    /\ UNCHANGED <<config, report, payload, proxy, reply, request, user_photo,
                   result_image, invoked, temp_files, hf_result>>

\* raise_for_status or a network error
ProductFetchFail ==
    /\ pc = "fetch_wait"
    /\ Fail("fetch")
    /\ UNCHANGED <<config, report, payload, image_cache, proxy, reply, evicted,
                   request, user_photo, garment_image, method, result_image,
                   invoked, temp_files, hf_result>>

\* Mutant of TryBackend: the test of result_image left out.
TryBackend_IgnoringResult(stage, first) ==
    /\ pc = stage
    /\ IF Available(stage)
       THEN /\ invoked' = Append(invoked, BackendOf(stage))
            /\ category' = request_category(stage, category, request.garment_type)
            /\ garment_desc' = request_description(stage, garment_desc,
                                                   request.garment_type)
            /\ pc' = first
       ELSE /\ invoked' = invoked
            /\ pc' = NextStage(stage)
            /\ UNCHANGED payload
    /\ UNCHANGED <<config, report, image_cache, proxy, reply, evicted, request,
                   user_photo, garment_image, method, result_image, temp_files,
                   hf_result, response>>

\* `if USE_<backend> and result_image is None:` followed by the call
TryBackend(stage, first) ==
    /\ pc = stage
    /\ IF Available(stage) /\ result_image = None
       THEN /\ invoked' = Append(invoked, BackendOf(stage))
            /\ category' = request_category(stage, category, request.garment_type)
            /\ garment_desc' = request_description(stage, garment_desc,
                                                   request.garment_type)
            /\ pc' = first
       ELSE /\ invoked' = invoked
            /\ pc' = NextStage(stage)
            /\ UNCHANGED payload
    /\ UNCHANGED <<config, report, image_cache, proxy, reply, evicted, request,
                   user_photo, garment_image, method, result_image, temp_files,
                   hf_result, response>>

TryHuggingFace == TryBackend("hf", "hf_files")

TryFal == TryBackend("fal", "fal_post")

TryReplicate == TryBackend("rep", "rep_idm")

\* Variables no backend function touches.
outside == <<config, report, image_cache, proxy, reply, evicted, request,
             user_photo, garment_image, invoked>>

\* generate_tryon_huggingface up to the first await: the gradio_client
\* import, then the two NamedTemporaryFile(delete=False) blocks, all before
\* the try/finally.  Creating a file and saving into it are separate: a save
\* that raises leaves the file created.
HFTempFiles(outcome) ==
    /\ pc = "hf_files"
    /\ CASE outcome = "import_error" ->
              /\ temp_files' = temp_files
              /\ Raised("hf")
         [] outcome = "user_save_error" ->
              /\ temp_files' = temp_files \cup {"user"}
              /\ Raised("hf")
         [] outcome = "garment_save_error" ->
              /\ temp_files' = temp_files \cup {"user", "garment"}
              /\ Raised("hf")
         [] outcome = "ok" ->
              /\ temp_files' = temp_files \cup {"user", "garment"}
              /\ pc' = "hf_kolors"
              /\ response' = response
    /\ UNCHANGED <<outside, payload, method, result_image, hf_result>>

\* run_kolors_prediction returned.  "none": predict raised, the function
\* returned None; "unexpected": a result in no recognised shape;
\* "open_error": Image.open raised, caught by the function's own except;
\* otherwise a raster in the given mode.  Without a raster the IDM-VTON
\* prediction is started, with the garment's description.
HFKolorsReturn(outcome) ==
    /\ pc = "hf_kolors"
    /\ CASE outcome \in {"none", "unexpected"} ->
              /\ pc' = "hf_idm"
              /\ hf_result' = hf_result
              /\ garment_desc' = get_garment_description(request.garment_type)
         [] outcome = "open_error" ->
              /\ pc' = "hf_cleanup"
              /\ hf_result' = None
              /\ garment_desc' = garment_desc
         [] outcome \in ResultModes ->
              /\ pc' = "hf_cleanup"
              /\ hf_result' = Generated(outcome, "kolors")
              /\ garment_desc' = garment_desc
    /\ UNCHANGED <<outside, category, method, result_image, temp_files, response>>

\* run_idm_vton_prediction returned.
HFIdmReturn(outcome) ==
    /\ pc = "hf_idm"
    /\ pc' = "hf_cleanup"
    /\ hf_result' = IF outcome \in ResultModes
                    THEN Generated(outcome, "hf-idm-vton")
                    ELSE None
    /\ UNCHANGED <<outside, payload, method, result_image, temp_files, response>>

\* The files left by the finally block: unlink(user_path) then
\* unlink(garment_path) in one try with a bare except.
unlink_temp_files(files, outcome) ==
    CASE outcome = "ok" -> {}
      [] outcome = "unlink_user_error" -> files
      [] outcome = "unlink_garment_error" -> files \ {"user"}

\* The finally block, then the return of the raster or the final raise.
HFCleanup(outcome) ==
    /\ pc = "hf_cleanup"
    /\ temp_files' = unlink_temp_files(temp_files, outcome)
    /\ hf_result' = None
    /\ IF hf_result # None
       THEN Returned("hf", hf_result)
       ELSE Raised("hf") /\ UNCHANGED <<method, result_image>>
    /\ UNCHANGED <<outside, payload>>

\* The POST to fal.run returned.  "status_error": a status other than 200;
\* "unexpected": a body that is not JSON or has neither image nor images.
FalPostReturn(outcome) ==
    /\ pc = "fal_post"
    /\ IF outcome = "ok"
       THEN pc' = "fal_get" /\ response' = response
       ELSE Raised("fal")
    /\ UNCHANGED <<outside, payload, method, result_image, temp_files, hf_result>>

\* The GET of the generated image returned.
FalGetReturn(outcome) ==
    /\ pc = "fal_get"
    /\ IF outcome \in ResultModes
       THEN Returned("fal", Generated(outcome, "fal"))
       ELSE Raised("fal") /\ UNCHANGED <<method, result_image>>
    /\ UNCHANGED <<outside, payload, temp_files, hf_result>>

\* replicate.run of IDM-VTON returned: "url" with an output, "empty" with a
\* falsy output, "error" by raising (caught by the function's first except).
RepIdmRunReturn(outcome) ==
    /\ pc = "rep_idm"
    /\ pc' = IF outcome = "url" THEN "rep_idm_get" ELSE "rep_oot"
    /\ UNCHANGED <<outside, payload, method, result_image, temp_files, hf_result,
                   response>>

\* Mutant of RepIdmGetReturn: OOTDiffusion is run although IDM-VTON gave a
\* raster.
RepIdmGetReturn_ThenOot(outcome) ==
    /\ pc = "rep_idm_get"
    /\ pc' = "rep_oot"
    /\ IF outcome \in ResultModes
       THEN /\ result_image' = Generated(outcome, "replicate-idm-vton")
            /\ method' = method_tag("rep")
       ELSE UNCHANGED <<method, result_image>>
    /\ UNCHANGED <<outside, payload, temp_files, hf_result, response>>

\* The GET of the IDM-VTON result returned.
RepIdmGetReturn(outcome) ==
    /\ pc = "rep_idm_get"
    /\ IF outcome \in ResultModes
       THEN Returned("rep", Generated(outcome, "replicate-idm-vton"))
       ELSE /\ pc' = "rep_oot"
            /\ UNCHANGED <<method, result_image, response>>
    /\ UNCHANGED <<outside, payload, temp_files, hf_result>>

\* replicate.run of OOTDiffusion returned; without an output the function
\* raises "All Replicate models failed".
RepOotRunReturn(outcome) ==
    /\ pc = "rep_oot"
    /\ IF outcome = "url"
       THEN pc' = "rep_oot_get" /\ response' = response
       ELSE Raised("rep")
    /\ UNCHANGED <<outside, payload, method, result_image, temp_files, hf_result>>

\* The GET of the OOTDiffusion result returned.
RepOotGetReturn(outcome) ==
    /\ pc = "rep_oot_get"
    /\ IF outcome \in ResultModes
       THEN Returned("rep", Generated(outcome, "replicate-ootdiffusion"))
       ELSE Raised("rep") /\ UNCHANGED <<method, result_image>>
    /\ UNCHANGED <<outside, payload, temp_files, hf_result>>

\* The deadline of a pending httpx call passes: the call raises.
Timeout ==
    /\ pc \in WaitStates
    /\ deadline(pc) > 0
    /\ CASE pc = "fetch_wait" -> Fail(TimeoutText)
         [] pc \in {"fal_post", "fal_get"} -> Raised("fal")
         [] pc = "rep_idm_get" -> pc' = "rep_oot" /\ response' = response
         [] pc = "rep_oot_get" -> Raised("rep")
    /\ UNCHANGED <<outside, payload, method, result_image, temp_files, hf_result>>

\* `if result_image is None: result_image = generate_composite_tryon(...)`,
\* encode_image_to_base64 and the response.  An exception of either is caught
\* by the outer except.
Respond ==
    /\ pc = "composite"
    /\ LET img == IF result_image = None
                  THEN generate_composite_tryon(user_photo, garment_image,
                                                request.garment_type)
                  ELSE result_image
       IN  IF img = None
           THEN Fail("composite") /\ result_image' = result_image
           ELSE /\ result_image' = img
                /\ IF encode_raises(img)
                   THEN Fail("encode")
                   ELSE /\ response' = [success |-> TRUE, result_image |-> img,
                                        error |-> "", method |-> method]
                        /\ pc' = "done"
    /\ UNCHANGED <<outside, payload, method, temp_files, hf_result>>

HFOutcomes == {"none", "unexpected", "open_error"} \cup ResultModes

GetOutcomes == {"error"} \cup ResultModes

TryOnNext ==
    \/ \E up \in Payloads, gt \in GarmentTypes, fast \in BOOLEAN :
          \/ \E pi \in Payloads : ReceiveRequest(up, pi, FALSE, gt, fast)
          \/ \E url \in ProductUrls : ReceiveRequest(up, url, TRUE, gt, fast)
    \/ DecodeUserPhoto
    \/ GetProductImage
    \/ \E content \in Payloads : ProductFetchOk(content)
    \/ ProductFetchFail
    \/ TryHuggingFace
    \/ \E o \in {"import_error", "user_save_error", "garment_save_error", "ok"} :
          HFTempFiles(o)
    \/ \E o \in HFOutcomes : HFKolorsReturn(o)
    \/ \E o \in HFOutcomes : HFIdmReturn(o)
    \/ \E o \in {"ok", "unlink_user_error", "unlink_garment_error"} : HFCleanup(o)
    \/ TryFal
    \/ \E o \in {"status_error", "unexpected", "ok"} : FalPostReturn(o)
    \/ \E o \in GetOutcomes : FalGetReturn(o)
    \/ TryReplicate
    \/ \E o \in {"error", "empty", "url"} : RepIdmRunReturn(o)
    \/ \E o \in GetOutcomes : RepIdmGetReturn(o)
    \/ \E o \in {"error", "empty", "url"} : RepOotRunReturn(o)
    \/ \E o \in GetOutcomes : RepOotGetReturn(o)
    \/ Timeout
    \/ Respond
    \/ ReturnResponse

Next == TryOnNext

\* One try-on request at a time, any number in sequence.
Spec == Init /\ [][Next]_vars

\* Concurrent proxy requests sharing the cache.  The proxy endpoints read no
\* credential, so one configuration stands for all.
CacheInit ==
    /\ Init
    /\ ~REPLICATE_API_TOKEN /\ ~HUGGINGFACE_API_TOKEN /\ ~FAL_API_KEY

CacheSpec == CacheInit /\ [][ProxyNext]_vars

----------------------------------------------------------------------------
\* The functions of the program applied to inputs of every kind: the
\* preprocessing, the Compositor, the request fields derived from the garment
\* type, and the two introspection endpoints.

PersonRasters ==
    {Raster(600, 800, "RGB", "user"), Raster(1000, 1000, "RGBA", "user"),
     Raster(2000, 1500, "L", "user"), Raster(640, 480, "RGB", "user"),
     Raster(1, 1, "RGB", "user"), Raster(768, 1024, "RGB", "user")}

GarmentRasters ==
    {Raster(400, 600, "RGBA", "garment"), Raster(2000, 2, "P", "garment"),
     Raster(500, 1000, "RGB", "garment"), Raster(300, 300, "RGB", "garment"),
     Raster(1, 1, "RGBA", "garment"), Raster(3, 2000, "L", "garment")}

\* garment_type is a free string: the described types, a type the program
\* does not know, and the empty string.
AllGarmentTypes == DescribedTypes \cup {"coat", ""}

PureInit ==
    /\ REPLICATE_API_TOKEN \in BOOLEAN
    /\ HUGGINGFACE_API_TOKEN \in BOOLEAN
    /\ FAL_API_KEY \in BOOLEAN
    /\ image_cache = <<>>
    /\ proxy = [r \in Requests |-> Idle]
    /\ reply = NoReply
    /\ evicted = {}
    /\ \E gt \in AllGarmentTypes, fast \in BOOLEAN :
          request = [NoRequest EXCEPT !.garment_type = gt, !.fast_mode = fast]
    /\ pc = "input"
    /\ user_photo \in PersonRasters
    /\ garment_image \in GarmentRasters
    /\ method = "composite"
    /\ result_image = None
    /\ invoked = <<>>
    /\ temp_files = {}
    /\ hf_result = None
    /\ response = NoResponse
    /\ category = "none"
    /\ garment_desc = <<>>
    /\ report = NoReport

\* The two preprocess_image calls of generate_tryon.
ApplyPreprocess ==
    /\ pc = "input"
    /\ user_photo' = preprocess_image(user_photo, 768, 1024, request.fast_mode)
    /\ garment_image' = preprocess_image(garment_image, 768, 768, request.fast_mode)
    /\ pc' = "bounded"
    /\ UNCHANGED <<config, report, payload, image_cache, proxy, reply, evicted,
                   request, method, result_image, invoked, temp_files, hf_result,
                   response>>

\* generate_composite_tryon on the two rasters, preprocessed or not.
ApplyCompositor ==
    /\ pc \in {"input", "bounded"}
    /\ result_image' = generate_composite_tryon(user_photo, garment_image,
                                                request.garment_type)
    /\ pc' = "composed"
    /\ UNCHANGED <<config, report, payload, image_cache, proxy, reply, evicted,
                   request, user_photo, garment_image, method, invoked,
                   temp_files, hf_result, response>>

\* The category and the description as generate_tryon_fal and
\* generate_tryon_replicate compute them.
ApplyDescription ==
    /\ category' = body_category(request.garment_type)
    /\ garment_desc' = get_garment_description(request.garment_type)
    /\ UNCHANGED <<config, report, image_cache, proxy, reply, evicted, request, pc,
                   user_photo, garment_image, method, result_image, invoked,
                   temp_files, hf_result, response>>

\* Mutant of ai_enabled: computed from the credentials.
ai_enabled_FromCredentials ==
    REPLICATE_API_TOKEN \/ FAL_API_KEY \/ HUGGINGFACE_API_TOKEN

\* `USE_REPLICATE or USE_FAL or USE_HUGGINGFACE`
ai_enabled == USE_REPLICATE \/ USE_FAL \/ USE_HUGGINGFACE

\* GET /
root ==
    /\ report' = [endpoint |-> "root", ai_enabled |-> ai_enabled,
                  replicate |-> USE_REPLICATE, fal |-> USE_FAL,
                  huggingface |-> USE_HUGGINGFACE]
    /\ UNCHANGED <<config, image_cache, proxy, reply, evicted, tryon>>

\* GET /health: the *_configured fields are bool(<credential>).
health_check ==
    /\ report' = [endpoint |-> "health", ai_enabled |-> ai_enabled,
                  replicate |-> REPLICATE_API_TOKEN, fal |-> FAL_API_KEY,
                  huggingface |-> HUGGINGFACE_API_TOKEN]
    /\ UNCHANGED <<config, image_cache, proxy, reply, evicted, tryon>>

PureNext ==
    \/ ApplyPreprocess
    \/ ApplyCompositor
    \/ ApplyDescription
    \/ root
    \/ health_check

PureSpec == PureInit /\ [][PureNext]_vars

----------------------------------------------------------------------------
\* Properties.

AllCredentialsAbsent ==
    ~REPLICATE_API_TOKEN /\ ~HUGGINGFACE_API_TOKEN /\ ~FAL_API_KEY

\* Both input images were decoded and preprocessed.
InputsReady == user_photo # None /\ garment_image # None

\* The remote services behind each backend block.
AiServices(stage) ==
    CASE stage = "hf" -> {"kolors", "hf-idm-vton"}
      [] stage = "fal" -> {"fal"}
      [] stage = "rep" -> {"replicate-idm-vton", "replicate-ootdiffusion"}

\* The backend of this block returned the raster held in result_image.
ProducedBy(stage) == result_image.src \in AiServices(stage)

NoBackendSucceeded == \A k \in DOMAIN Stages : ~ProducedBy(Stages[k])

Rank(backend) == CHOOSE k \in DOMAIN Stages : BackendOf(Stages[k]) = backend

\* The environment variable that holds a backend's credential.
Credential(backend) ==
    CASE backend = "huggingface" -> HUGGINGFACE_API_TOKEN
      [] backend = "fal" -> FAL_API_KEY
      [] backend = "replicate" -> REPLICATE_API_TOKEN

\* C1: when both inputs were decoded and preprocessed and no backend
\* returned a raster (each was unavailable or failed), the response has
\* success = true, method = "composite" and the Compositor's raster.
C1_AllFailedGivesComposite ==
    (pc = "done" /\ InputsReady /\ NoBackendSucceeded)
        => /\ response.success
           /\ response.method = "composite"
           /\ response.result_image.src = "compositor"

C3_BackendResultNeverFails ==
    (pc = "done" /\ InputsReady /\ ~NoBackendSucceeded) => response.success

C5_BoundedOldestFirst ==
    /\ [](Len(image_cache) <= CACHE_MAX_SIZE)
    /\ [][\A k \in CacheKeys(image_cache) \ CacheKeys(image_cache') :
              k = image_cache[1].key]_vars

\* A download just evicted a key from the full cache while another download
\* is still pending.
C5_Witness ==
    /\ evicted # {}
    /\ Len(image_cache) = CACHE_MAX_SIZE
    /\ \E r \in Requests : proxy[r].pc = "await"

\* C6: a request answered from the cache found its key present and got the
\* bytes stored under it, with status 200, whatever the other requests did.
C6_HitReturnsStoredBytes ==
    [][(reply' # reply /\ reply'.hit)
          => /\ md5(reply'.url) \in CacheKeys(image_cache)
             /\ reply'.status = 200
             /\ reply'.body # MissingValue
             /\ reply'.body = CacheGet(image_cache, md5(reply'.url))]_vars

\* A hit on the oldest key of the full cache while another request's pending
\* download is about to evict that key.
C6_Witness ==
    /\ reply.hit
    /\ reply.status = 200
    /\ Len(image_cache) = CACHE_MAX_SIZE
    /\ md5(reply.url) = image_cache[1].key
    /\ \E r \in Requests :
          proxy[r].pc = "await" /\ md5(proxy[r].url) \notin CacheKeys(image_cache)

\* Positions inside generate_tryon_huggingface.
HFStates == {"hf_files", "hf_kolors", "hf_idm", "hf_cleanup"}

\* C7: once the Hugging Face call is over, none of its temporary files
\* exists.
C7_TempFilesDeleted == (pc \notin HFStates) => temp_files = {}

\* C8: no response reports an error caused by a backend: neither an
\* exception of a backend function nor a malformed (truncated) image a
\* backend sent.
C8_BackendFailuresAbsorbed ==
    (pc = "done" /\ ~response.success)
        => /\ response.error # "backend"
           /\ ~(response.error = "encode" /\ ~result_image.intact)

\* The services a method tag names.
TagServices(tag) ==
    CASE tag = "ai-kolors" -> {"kolors"}
      [] tag = "ai-fal" -> {"fal"}
      [] tag = "ai-replicate" -> {"replicate-idm-vton", "replicate-ootdiffusion"}
      [] tag = "composite" -> {"compositor"}
      [] OTHER -> {}

\* C9: in a successful response the method tag names the service that
\* produced the result image.
C9_MethodNamesProducer ==
    (pc = "done" /\ response.success)
        => response.result_image.src \in TagServices(response.method)

\* Positions at which generate_tryon waits for a backend's remote service.
BackendWaitStates == WaitStates \ {"fetch_wait"}

\* C10: every pending backend call has a deadline: while generate_tryon
\* waits for a backend, the step that ends the wait by timeout is possible.
C10_EveryBackendCallHasDeadline ==
    (pc \in BackendWaitStates) => ENABLED Timeout

----------------------------------------------------------------------------
\* Properties of the preprocessing, the Compositor and the garment types.

\* The garment's placement for the rasters and the garment type of the state.
Placement == CompositeGeometry(user_photo, garment_image, request.garment_type)

\* A raster as preprocess_image leaves it for max_size = (mx, my): both sides
\* at least 1 and within the bound, in RGB or RGBA mode.
ValidPreprocessed(image, mx, my) ==
    LET b == preprocess_bound(mx, my, request.fast_mode)
    IN  /\ image.w >= 1 /\ image.w <= b[1]
        /\ image.h >= 1 /\ image.h <= b[2]
        /\ image.mode \in {"RGB", "RGBA"}

\* C11: for valid preprocessed rasters and every garment type the Compositor
\* returns a raster: the garment's scaled width and height are both at
\* least 1 and resize does not raise.
C11_CompositorNeverRaises ==
    (/\ pc = "composed"
     /\ ValidPreprocessed(user_photo, 768, 1024)
     /\ ValidPreprocessed(garment_image, 768, 768))
        => /\ Placement.new_width >= 1
           /\ Placement.new_height >= 1
           /\ result_image # None

\* The height that scaling to the target width alone would give.
WidthBasedHeight ==
    (Placement.max_width * garment_image.h) \div garment_image.w

\* C12: the scaled garment is never higher than int(max_height_ratio * H) nor
\* wider than int(scale_width * W); when scaling to the target width gives a
\* height above the limit, the height is the limit and the width is the
\* limit times the garment's aspect ratio, rounded down (a 1000x1000 person
\* with a 500x1000 dress: 375x750).
C12_HeightLimitFirst ==
    (pc = "composed") =>
        LET g == Placement
            p == PlacementParams(request.garment_type)
        IN  /\ g.new_height <= g.max_height
            /\ g.new_width <= g.max_width
            /\ 100 * g.new_height <= p.max_height_ratio * user_photo.h
            /\ 100 * g.new_width <= p.scale_width * user_photo.w
            /\ WidthBasedHeight > g.max_height
                  => /\ g.new_height = g.max_height
                     /\ g.new_width * garment_image.h <= g.max_height * garment_image.w
                     /\ g.max_height * garment_image.w
                            < (g.new_width + 1) * garment_image.h
            /\ WidthBasedHeight <= g.max_height
                  => g.new_width = g.max_width /\ g.new_height = WidthBasedHeight
            /\ (/\ user_photo.w = 1000 /\ user_photo.h = 1000
                /\ garment_image.w = 500 /\ garment_image.h = 1000
                /\ request.garment_type = "dress")
                  => g.new_width = 375 /\ g.new_height = 750

\* The Compositor ran on a 1000x1000 person and a 500x1000 dress and scaled
\* the dress to 375x750.
C12_Witness ==
    /\ pc = "composed"
    /\ result_image # None
    /\ user_photo.w = 1000 /\ user_photo.h = 1000
    /\ garment_image.w = 500 /\ garment_image.h = 1000
    /\ request.garment_type = "dress"
    /\ WidthBasedHeight = 1200
    /\ Placement.new_width = 375 /\ Placement.new_height = 750

\* The four lower-body garment types, as the claim lists them.
LowerBodyTypes == {"pants", "jeans", "shorts", "skirt"}

\* Free columns left and right of the placed garment.
LeftMargin == Placement.x_offset

RightMargin == user_photo.w - Placement.new_width - Placement.x_offset

\* C13: for a lower-body garment type and a person of size W x H the garment's
\* top edge is at int(0.42 * H), its height is at most int(0.55 * H), and
\* its left and right margins differ by at most 1 pixel (skirt on 600x800: top
\* edge 336, height at most 440).
C13_LowerBodyPlacement ==
    (pc = "composed" /\ request.garment_type \in LowerBodyTypes) =>
        LET g == Placement
        IN  /\ 100 * g.y_offset <= 42 * user_photo.h
            /\ 42 * user_photo.h < 100 * (g.y_offset + 1)
            /\ 100 * g.max_height <= 55 * user_photo.h
            /\ 55 * user_photo.h < 100 * (g.max_height + 1)
            /\ g.new_height <= g.max_height
            /\ Abs(LeftMargin - RightMargin) <= 1
            /\ LeftMargin >= 0 /\ RightMargin >= 0
            /\ (user_photo.w = 600 /\ user_photo.h = 800)
                  => g.y_offset = 336 /\ g.max_height = 440

\* The Compositor placed a skirt on a 600x800 person: top edge 336, scaled
\* to the height limit 440.
C13_Witness ==
    /\ pc = "composed"
    /\ result_image # None
    /\ request.garment_type = "skirt"
    /\ user_photo.w = 600 /\ user_photo.h = 800
    /\ Placement.y_offset = 336
    /\ Placement.new_height = 440
    /\ LeftMargin + Placement.new_width + RightMargin = 600

\* The default text of get_garment_description for a garment type.
GenericDescription(garment_type) ==
    <<"A ", garment_type, " clothing item, well-fitted, stylish">>

\* C14: a garment type that is none of pants, jeans, shorts, skirt, dress is
\* placed with the upper-body parameters (width 0.58, anchor 0.12, maximum
\* height 0.50), and a garment type that is not in the description table is
\* described by the default text; a type in the table gets its own text.
C14_UnknownTypesUpperBodyGeneric ==
    /\ (pc = "composed" /\ request.garment_type \notin LowerBodyTypes \cup {"dress"})
          => LET g == Placement
             IN  /\ g.max_width = IntScale(user_photo.w, 58)
                 /\ 100 * g.y_offset <= 12 * user_photo.h
                 /\ 12 * user_photo.h < 100 * (g.y_offset + 1)
                 /\ 2 * g.max_height <= user_photo.h
                 /\ user_photo.h < 2 * (g.max_height + 1)
    /\ (garment_desc # <<>> /\ request.garment_type \notin DescribedTypes)
          => garment_desc = GenericDescription(request.garment_type)
    /\ (garment_desc # <<>> /\ request.garment_type \in DescribedTypes)
          => Len(garment_desc) = 1

\* The type "coat": the Compositor placed it on a 600x800 person with the
\* upper-body parameters and the description is the default text.
C14_Witness ==
    /\ pc = "composed"
    /\ result_image # None
    /\ request.garment_type = "coat"
    /\ user_photo.w = 600 /\ user_photo.h = 800
    /\ Placement.max_width = 348
    /\ Placement.y_offset = 96
    /\ Placement.max_height = 400
    /\ garment_desc = <<"A ", "coat", " clothing item, well-fitted, stylish">>

\* The bound of each speed mode, as numbers: <<width, height>> for the user
\* photo and for the garment image.
UserBound == IF request.fast_mode THEN <<512, 512>> ELSE <<768, 1024>>

GarmentBound == IF request.fast_mode THEN <<512, 680>> ELSE <<768, 768>>

Fits(image, bound) ==
    /\ image.w >= 1 /\ image.w <= bound[1]
    /\ image.h >= 1 /\ image.h <= bound[2]

\* C15: preprocess_image increases neither side of a raster, its output fits
\* the bound selected by max_size and fast_mode, and applying it again to its
\* output with the same arguments changes neither the size nor the mode.
C15_PreprocessShrinksIdempotent ==
    /\ [](pc = "bounded"
            => /\ Fits(user_photo, UserBound)
               /\ Fits(garment_image, GarmentBound)
               /\ preprocess_image(user_photo, 768, 1024, request.fast_mode)
                      = user_photo
               /\ preprocess_image(garment_image, 768, 768, request.fast_mode)
                      = garment_image)
    /\ [][(pc = "input" /\ pc' = "bounded")
            => /\ user_photo'.w <= user_photo.w
               /\ user_photo'.h <= user_photo.h
               /\ garment_image'.w <= garment_image.w
               /\ garment_image'.h <= garment_image.h]_vars

\* Both rasters were shrunk: the 1000x1000 photo to 768x768 and the 2000x2
\* palette image to 768x1 in RGB mode.
C15_Witness ==
    /\ pc = "bounded"
    /\ ~request.fast_mode
    /\ user_photo.w = 768 /\ user_photo.h = 768 /\ user_photo.mode = "RGBA"
    /\ garment_image.w = 768 /\ garment_image.h = 1 /\ garment_image.mode = "RGB"

\* Positions of generate_tryon from the first backend block to the
\* Compositor: the rasters held there are the arguments of every backend
\* call and of the Compositor call.
CallStates ==
    {"hf", "hf_files", "hf_kolors", "hf_idm", "hf_cleanup", "fal", "fal_post",
     "fal_get", "rep", "rep_idm", "rep_idm_get", "rep_oot", "rep_oot_get",
     "composite"}

\* The product bytes of the request: inline, or the bytes fetched from its URL.
ProductContent ==
    IF request.product_is_url
    THEN CacheGet(image_cache, md5(request.product_image))
    ELSE request.product_image

\* C16: the rasters passed to a backend or to the Compositor are in RGB or
\* RGBA mode and within the size bound of the request's speed mode, and they
\* are the results of preprocess_image on the decoded inputs.
C16_CallsGetPreprocessedRasters ==
    (pc \in CallStates) =>
        /\ user_photo.mode \in {"RGB", "RGBA"}
        /\ garment_image.mode \in {"RGB", "RGBA"}
        /\ Fits(user_photo, UserBound)
        /\ Fits(garment_image, GarmentBound)
        /\ user_photo = preprocess_image(decode_user_photo(request.user_photo),
                                         768, 1024, request.fast_mode)
        /\ garment_image = preprocess_image(decode_product_image(ProductContent),
                                            768, 768, request.fast_mode)

\* Fal is being called in fast mode with the 1000x1000 photo shrunk to
\* 512x512 and the fetched 2000x2 palette image shrunk to 512x1 in RGB mode.
C16_Witness ==
    /\ pc = "fal_post"
    /\ request.fast_mode
    /\ request.user_photo = 2
    /\ request.product_is_url
    /\ user_photo.w = 512 /\ user_photo.h = 512 /\ user_photo.mode = "RGBA"
    /\ garment_image.w = 512 /\ garment_image.h = 1 /\ garment_image.mode = "RGB"

\* The block of generate_tryon that calls a backend.
StageOf(backend) == Stages[Rank(backend)]

\* The usability flag of a backend in the last introspection response.
Reported(backend) ==
    CASE backend = "huggingface" -> report.huggingface
      [] backend = "fal" -> report.fal
      [] backend = "replicate" -> report.replicate

Backends == {"huggingface", "fal", "replicate"}

C18_InputFailureAbortsWithError ==
    (pc = "done" /\ ~InputsReady)
        => /\ invoked = <<>>
           /\ result_image = None
           /\ ~response.success
           /\ response.result_image = None
           /\ response.error # ""

\* C19: a proxy request for a URL whose scheme is neither http nor https is
\* answered with status 400, starts no download and leaves the cache as it
\* is.
C19_BadSchemeRejectedWith400 ==
    [][(reply' # reply /\ reply'.url \notin HttpUrls)
          => /\ reply'.status = 400
             /\ proxy' = proxy
             /\ image_cache' = image_cache]_vars

\* C20: a request answered from the cache starts no download and leaves the
\* cache as it was: the same entries with the same values in the same order.
C20_HitLeavesCacheUntouched ==
    [][(reply' # reply /\ reply'.hit)
          => /\ image_cache' = image_cache
             /\ proxy' = proxy]_vars

\* A hit on the oldest entry of the full cache, which is still the oldest
\* entry afterwards, with no download pending.
C20_Witness ==
    /\ reply.hit
    /\ reply.status = 200
    /\ Len(image_cache) = CACHE_MAX_SIZE
    /\ image_cache[1].key = md5(reply.url)
    /\ image_cache[1].value = reply.body
    /\ \A r \in Requests : proxy[r].pc = "idle"

----------------------------------------------------------------------------
\* The server: a try-on request and a proxy request in flight on the one
\* event loop.

\* replicate.run is a plain (blocking) call made inside the coroutine: until
\* it returns, the event loop runs no other coroutine.  The Hugging Face
\* predictions run in an executor thread and every HTTP call is awaited, so
\* the loop is free while they are pending.
LoopBlocked == pc \in {"rep_idm", "rep_oot"}

\* The proxy client and the URLs it asks for (0: not an http URL).
ServerClients == {1}

ServerUrls == {0, 2}

\* The try-on requests sent: the product image inline or by URL.
ServerTryOns ==
    {[user_photo |-> 1, product_image |-> 1, product_is_url |-> is_url,
      garment_type |-> "top", fast_mode |-> TRUE] : is_url \in BOOLEAN}

\* A step of generate_tryon.
ServerTryOn == TryOnNext /\ (pc = "idle" => request' \in ServerTryOns)

\* A step of proxy_image for client r: it needs the event loop.
ServerProxy(r) ==
    /\ ~LoopBlocked
    /\ \/ \E url \in ServerUrls : ProxyStart(r, url)
       \/ \E content \in ProxyBodies : ProxyFetchOk(r, content)
       \/ \E exception \in {"HTTPStatusError", "TransportError"} :
             ProxyFetchFail(r, exception)

ServerNext == ServerTryOn \/ \E r \in ServerClients : ServerProxy(r)

ServerSpec == Init /\ [][ServerNext]_vars

----------------------------------------------------------------------------
\* Properties of failed fetches, the Compositor's layers, the backends' models
\* and concurrent requests.

\* C21: a download that fails (a status error, a timeout or another network
\* exception) leaves the cache as it was: nothing inserted, nothing evicted.
C21_FailedFetchLeavesCache ==
    [][(\E r \in Requests :
            /\ proxy[r].pc = "await"
            /\ proxy'[r].pc = "idle"
            /\ reply'.status # 200)
          => image_cache' = image_cache]_vars

\* A download of a key that is not cached failed with the remote status
\* while the cache was full, and the cache is still full without that key.
C21_Witness ==
    /\ reply.status = 404
    /\ ~reply.hit
    /\ reply.url \in HttpUrls
    /\ Len(image_cache) = CACHE_MAX_SIZE
    /\ md5(reply.url) \notin CacheKeys(image_cache)
    /\ evicted = {}

\* The position of the layer of a name in a raster's layers (0: none).
LayerIndex(image, name) ==
    IF \E i \in DOMAIN image.layers : image.layers[i].name = name
    THEN CHOOSE i \in DOMAIN image.layers : image.layers[i].name = name
    ELSE 0

\* C22: in the raster the Compositor returns, the person is the bottom
\* layer, the shadow lies directly over it and the garment directly over the
\* shadow, each exactly once; the shadow is pasted at the garment's offset
\* plus (5, 5).
C22_ShadowUnderGarment ==
    (result_image.src = "compositor") =>
        LET l == result_image.layers
        IN  /\ Len(l) >= 3
            /\ l[1].name = "person"
            /\ l[2].name = "shadow"
            /\ l[3].name = "garment"
            /\ \A i \in DOMAIN l : i > 3 => l[i].name \notin {"shadow", "garment"}
            /\ LayerIndex(result_image, "shadow") < LayerIndex(result_image, "garment")
            /\ l[2].x = l[3].x + 5
            /\ l[2].y = l[3].y + 5
            /\ l[3].x = Placement.x_offset
            /\ l[3].y = Placement.y_offset

\* The Compositor returned the skirt on the 600x800 person: garment at
\* (153, 336), shadow under it at (158, 341).
C22_Witness ==
    /\ pc = "composed"
    /\ result_image.src = "compositor"
    /\ request.garment_type = "skirt"
    /\ user_photo.w = 600 /\ user_photo.h = 800
    /\ garment_image.w = 400 /\ garment_image.h = 600
    /\ LayerIndex(result_image, "shadow") = 2
    /\ LayerIndex(result_image, "garment") = 3
    /\ result_image.layers[2].x = 158 /\ result_image.layers[2].y = 341
    /\ result_image.layers[3].x = 153 /\ result_image.layers[3].y = 336

\* Positions inside generate_tryon_replicate, by model.
RepIdmStates == {"rep_idm", "rep_idm_get"}

RepOotStates == {"rep_oot", "rep_oot_get"}

RepStates == RepIdmStates \cup RepOotStates

\* The models run in their fixed order, the second only after the first
\* ended without a raster.
ModelsInOrder ==
    /\ (pc' = "hf_kolors" /\ pc # "hf_kolors") => pc = "hf_files"
    /\ (pc' = "hf_idm" /\ pc # "hf_idm") => (pc = "hf_kolors" /\ hf_result' = None)
    /\ (pc' = "rep_idm" /\ pc # "rep_idm") => pc = "rep"
    /\ (pc' = "rep_idm_get" /\ pc # "rep_idm_get") => pc = "rep_idm"
    /\ (pc' = "rep_oot" /\ pc # "rep_oot") =>
           (pc \in RepIdmStates /\ result_image' = None)
    /\ (pc' = "rep_oot_get" /\ pc # "rep_oot_get") => pc = "rep_oot"

\* Hugging Face ends with a raster exactly when one of its models gave one,
\* and then with that raster.
HFFailsIffNoRaster ==
    (pc \in HFStates /\ pc' \notin HFStates) =>
        /\ pc' = NextStage("hf")
        /\ (result_image' = None) <=> (hf_result = None)
        /\ hf_result # None =>
               /\ result_image' = hf_result
               /\ hf_result.src \in {"kolors", "hf-idm-vton"}
               /\ method' = method_tag("hf")

\* Replicate ends with a raster exactly when the GET of a model's output
\* gave one; it ends without one only after OOTDiffusion was run.
RepFailsIffNoRaster ==
    (pc \in RepStates /\ pc' \notin RepStates) =>
        /\ pc' = NextStage("rep")
        /\ result_image' = None => pc \in RepOotStates
        /\ result_image' # None =>
               /\ method' = method_tag("rep")
               /\ \/ pc = "rep_idm_get" /\ result_image'.src = "replicate-idm-vton"
                  \/ pc = "rep_oot_get" /\ result_image'.src = "replicate-ootdiffusion"

\* C23: in Replicate (IDM-VTON, OOTDiffusion) and in Hugging Face (Kolors,
\* IDM-VTON) the models are run in that order, the second only if the first
\* gave no raster, and the backend fails exactly when neither gave one.
C23_TwoModelsInOrder ==
    [][ModelsInOrder /\ HFFailsIffNoRaster /\ RepFailsIffNoRaster]_vars

\* OOTDiffusion gave the result after Kolors, the Hugging Face IDM-VTON and
\* the Replicate IDM-VTON gave none.
C23_Witness ==
    /\ pc = "composite"
    /\ result_image.src = "replicate-ootdiffusion"
    /\ method = "ai-replicate"
    /\ invoked = <<"huggingface", "replicate">>
    /\ REPLICATE_API_TOKEN

\* The body region of the Compositor's placement parameters for a garment
\* type, as a backend category.
PlacementBucket(garment_type) ==
    LET params == PlacementParams(garment_type)
    IN  CASE params.scale_width = 55 -> "lower_body"
          [] params.scale_width = 60 -> "dresses"
          [] params.scale_width = 58 -> "upper_body"

\* C24: for every garment type, the category computed for the AI backends
\* (upper_body, lower_body, dresses) names the body region of the placement
\* parameters the Compositor uses for the same type.
C24_CategoryMatchesPlacement ==
    (category # "none") => category = PlacementBucket(request.garment_type)

\* The type "coat": the category for the backends is lower_body while the
\* Compositor placed it with the upper-body parameters.
C24_Mismatch ==
    /\ pc = "composed"
    /\ result_image.src = "compositor"
    /\ request.garment_type = "coat"
    /\ category = "lower_body"
    /\ PlacementBucket(request.garment_type) = "upper_body"
    /\ Placement.max_width = IntScale(user_photo.w, 58)

\* C25: whatever the interleaving of the downloads, a key leaves the cache
\* only in a step that inserts a key that was absent into the full cache; the
\* number of entries never decreases and stays CACHE_MAX_SIZE once reached.
C25_EvictOnlyForNewKey ==
    [][/\ (CacheKeys(image_cache) \ CacheKeys(image_cache') # {}) =>
              /\ Len(image_cache) = CACHE_MAX_SIZE
              /\ CacheKeys(image_cache') \ CacheKeys(image_cache) # {}
       /\ Len(image_cache') >= Len(image_cache)
       /\ Len(image_cache) = CACHE_MAX_SIZE => Len(image_cache') = CACHE_MAX_SIZE
      ]_vars

\* Two downloads of the same URL were pending with the cache full; the
\* second to complete evicted an entry although its key was present, and the
\* cache is below CACHE_MAX_SIZE.
C25_ShrunkCache ==
    /\ evicted # {}
    /\ ~reply.hit /\ reply.status = 200
    /\ md5(reply.url) \in CacheKeys(image_cache)
    /\ Len(image_cache) < CACHE_MAX_SIZE

\* C26: while the try-on request waits for a remote backend (Hugging Face,
\* Fal or Replicate), a proxy request whose download is pending can take its
\* next step and complete.
C26_OthersProgressDuringBackendWait ==
    \A r \in ServerClients :
        (pc \in BackendWaitStates /\ proxy[r].pc = "await")
            => ENABLED ServerProxy(r)

\* The try-on request is inside replicate.run of IDM-VTON while the proxy
\* request's download is pending.
C26_BlockedByReplicate ==
    /\ pc = "rep_idm"
    /\ \E r \in ServerClients : proxy[r].pc = "await"

====
